---- MODULE Spec2Model ----
(***************************************************************************)
(* A model of bottles-core: the bottle catalog (bottle.rs, persistence.rs) *)
(* and the runner variants (runner/*.rs).                                  *)
(*                                                                         *)
(* The catalog part models the file <base>/bottles.json as a sequence of   *)
(* JSON tokens, written by save_bottles through fs::write (create and      *)
(* truncate, then write at the writer's own offset) and parsed by          *)
(* load_bottles.                                                           *)
(***************************************************************************)
EXTENDS Integers, Sequences, FiniteSets, TLC

VARIABLES
    dirExists,   \* the Persistence base directory exists
    fileExists,  \* <base>/bottles.json exists
    fileData,    \* its contents, a sequence of JSON tokens
    writers,     \* per caller of save_bottles: position, argument, buffer
    loaded,      \* what load_bottles returned, when the last step was a load
    last,        \* history: the save_bottles call that returned last
    raced        \* history: the latest File::create truncated the catalog
                 \* while another save was between its create and its write

pvars == <<dirExists, fileExists, fileData, writers, loaded, last, raced>>

VARIABLES
    fs,          \* the runner installation directory: what is at each path
    runner,      \* the runner value the caller holds, if any
    result,      \* what the caller's operation returned, when the last step
                 \* was the end of one
    call,        \* the caller's position inside initialize
    children     \* the subprocesses the latest initialize or launch started

rvars == <<fs, runner, result, call, children>>

vars == <<pvars, rvars>>

-----------------------------------------------------------------------------
(* Bounds *)

\* longest list of bottles handed to save_bottles
MaxBottles == 2

\* callers that may run save_bottles at the same time
Writers == {"w1", "w2"}

-----------------------------------------------------------------------------
(* bottle.rs *)

\* Option<String>: None and Some(x)
None == <<>>
Some(x) == <<x>>

BottleType == {"Gaming", "Software", "Custom"}

BottleTypeDefault == "Custom"

\* a PathBuf: its text, and whether its bytes are valid Unicode
PathBufFrom(s) == [text |-> s, utf8 |-> TRUE]

NonUnicodePath == [text |-> "/tmp/b<FF>", utf8 |-> FALSE]

\* HashMap<String, String>::default()
EmptyEnv == [k \in {} |-> ""]

BottleConfigDefault ==
    [runner |-> None, dxvk_version |-> None, vkd3d_version |-> None,
     environment |-> EmptyEnv]

\* Bottle::new
BottleNew(name, path, kind) ==
    [name |-> name, path |-> path, kind |-> kind,
     config |-> BottleConfigDefault, active |-> FALSE]

EnvKeys == {"DXVK_HUD", "WINEDEBUG"}

\* The bottles callers hand to save_bottles.
SteamBottle ==
    [BottleNew("Steam", PathBufFrom("/tmp/b1"), "Gaming") EXCEPT
        !.config.runner = Some("proton-ge-8"),
        !.config.environment = ("DXVK_HUD" :> "1"),
        !.active = TRUE]

OfficeBottle ==
    [BottleNew("Office", PathBufFrom("/tmp/b2"), "Software") EXCEPT
        !.config.dxvk_version = Some("2.3"),
        !.config.vkd3d_version = Some("2.9"),
        !.config.environment = ("DXVK_HUD" :> "0") @@ ("WINEDEBUG" :> "-all")]

RawBottle ==
    [BottleNew("Raw", NonUnicodePath, BottleTypeDefault) EXCEPT !.active = TRUE]

BottlePool == {SteamBottle, OfficeBottle, RawBottle}

BottleLists == UNION {[1..n -> BottlePool] : n \in 0..MaxBottles}

-----------------------------------------------------------------------------
(* serde_json, as derived for Bottle and BottleConfig (bottle.rs) *)

\* JSON values of the optional fields
JNull == [tag |-> "null"]
JString(s) == [tag |-> "string", s |-> s]

\* Serialize for Option<String>
OptionToJson(o) == IF o = None THEN JNull ELSE JString(o[1])

\* Deserialize for Option<String>
OptionFromJson(j) == IF j.tag = "null" THEN None ELSE Some(j.s)

\* the orders in which a HashMap may iterate over its keys
KeyOrders ==
    {o \in [1..Cardinality(EnvKeys) -> EnvKeys] :
        \A i, j \in DOMAIN o : o[i] = o[j] => i = j}

\* Serialize for HashMap<String, String>: the entries, in iteration order
EnvToJson(env, order) ==
    LET keys == SelectSeq(order, LAMBDA k : k \in DOMAIN env)
    IN  [i \in 1..Len(keys) |-> <<keys[i], env[keys[i]]>>]

\* Deserialize for HashMap<String, String>: a later entry replaces an earlier one
EnvFromJson(pairs) ==
    LET keys == {pairs[i][1] : i \in DOMAIN pairs}
        latest(k) == CHOOSE i \in DOMAIN pairs :
                      /\ pairs[i][1] = k
                      /\ \A j \in DOMAIN pairs : pairs[j][1] = k => j <= i
    IN  [k \in keys |-> pairs[latest(k)][2]]

\* Serialize for BottleConfig
ConfigToJson(c, order) ==
    [runner |-> OptionToJson(c.runner),
     dxvk_version |-> OptionToJson(c.dxvk_version),
     vkd3d_version |-> OptionToJson(c.vkd3d_version),
     environment |-> EnvToJson(c.environment, order)]

\* Deserialize for BottleConfig
ConfigFromJson(j) ==
    [runner |-> OptionFromJson(j.runner),
     dxvk_version |-> OptionFromJson(j.dxvk_version),
     vkd3d_version |-> OptionFromJson(j.vkd3d_version),
     environment |-> EnvFromJson(j.environment)]

\* Serialize for Bottle: `active` is #[serde(skip)]; a path is written as its
\* text, which exists only for a Unicode path
BottleToJson(b, order) ==
    [name |-> b.name, path |-> b.path.text, kind |-> b.kind,
     config |-> ConfigToJson(b.config, order)]

\* mutant: `config` skipped as well
BottleFromJsonNoConfig(j) ==
    [name |-> j.name, path |-> PathBufFrom(j.path), kind |-> j.kind,
     config |-> BottleConfigDefault, active |-> FALSE]

\* Deserialize for Bottle: a skipped field takes bool::default()
BottleFromJson(j) ==
    [name |-> j.name, path |-> PathBufFrom(j.path), kind |-> j.kind,
     config |-> ConfigFromJson(j.config), active |-> FALSE]

\* the tokens of a JSON document holding an array of objects
LBracket == [t |-> "["]
RBracket == [t |-> "]"]
Comma == [t |-> ","]
Object(j) == [t |-> "object", v |-> j]

RECURSIVE ArrayItems(_, _)
ArrayItems(bottles, order) ==
    IF Len(bottles) = 0 THEN <<>>
    ELSE IF Len(bottles) = 1 THEN <<Object(BottleToJson(bottles[1], order))>>
    ELSE <<Object(BottleToJson(bottles[1], order)), Comma>>
            \o ArrayItems(Tail(bottles), order)

\* serde_json::to_string_pretty(bottles)
ToStringPretty(bottles, order) ==
    IF \E i \in DOMAIN bottles : ~bottles[i].path.utf8
    THEN [ok |-> FALSE, doc |-> <<>>]
    ELSE [ok |-> TRUE,
          doc |-> <<LBracket>> \o ArrayItems(bottles, order) \o <<RBracket>>]

\* whether the tokens are one JSON array of objects and nothing else
IsArrayDoc(doc) ==
    /\ Len(doc) >= 2
    /\ doc[1].t = "["
    /\ doc[Len(doc)].t = "]"
    /\ Len(doc) > 2 => (Len(doc) - 2) % 2 = 1
    /\ \A i \in 2..(Len(doc) - 1) :
          doc[i].t = (IF i % 2 = 0 THEN "object" ELSE ",")

\* serde_json::from_str::<Vec<Bottle>>(content)
FromStr(doc) ==
    IF IsArrayDoc(doc)
    THEN [ok |-> TRUE,
          list |-> [i \in 1..((Len(doc) - 1) \div 2) |-> BottleFromJson(doc[2 * i].v)]]
    ELSE [ok |-> FALSE, list |-> <<>>]

-----------------------------------------------------------------------------
(* the filesystem calls of persistence.rs *)

\* mutant: the file is opened without truncation
CreateKept(data) == data

\* File::create on an existing file truncates it
CreateTruncated(data) == <<>>

\* the zero bytes of a hole, left by a write beyond the end of the file
Nul == [t |-> "nul"]

\* write(2) of buf at offset off of a file holding data
WriteAt(data, off, buf) ==
    LET end == off + Len(buf)
        len == IF Len(data) > end THEN Len(data) ELSE end
    IN  [i \in 1..len |->
            IF i > off /\ i <= end THEN buf[i - off]
            ELSE IF i <= Len(data) THEN data[i]
            ELSE Nul]

-----------------------------------------------------------------------------
(* persistence.rs *)

NoResult == [kind |-> "none", list |-> <<>>]
Ok(list) == [kind |-> "Ok", list |-> list]
\* Error::Io carrying an OS error
ErrIo == [kind |-> "ErrIo", list |-> <<>>]
\* Error::Io carrying a serde_json error lifted into io::Error
ErrJson == [kind |-> "ErrJson", list |-> <<>>]

\* mutant: no exists() test, the read of a missing file fails
LoadBottlesNoTest(exists, data, readOk) ==
    IF ~exists \/ ~readOk THEN ErrIo
    ELSE LET parsed == FromStr(data)
         IN  IF parsed.ok THEN Ok(parsed.list) ELSE ErrJson

\* Persistence::load_bottles; readOk: fs::read_to_string succeeds
LoadBottles(exists, data, readOk) ==
    IF ~exists THEN Ok(<<>>)
    ELSE IF ~readOk THEN ErrIo
    ELSE LET parsed == FromStr(data)
         IN  IF parsed.ok THEN Ok(parsed.list) ELSE ErrJson

IdleWriter == [pc |-> "idle", list |-> <<>>, buf |-> <<>>]

InFlight(w) == writers[w].pc # "idle"

Quiescent == \A w \in Writers : ~InFlight(w)

NoCall == [res |-> "none", list |-> <<>>]

\* a save_bottles(list) call returns res
Returned(list, res) == [res |-> res, list |-> list]

PersistInit ==
    /\ dirExists \in BOOLEAN
    /\ fileExists = FALSE
    /\ fileData = <<>>
    /\ writers = [w \in Writers |-> IdleWriter]
    /\ loaded = NoResult
    /\ last = NoCall
    /\ raced = FALSE

\* save_bottles, lines 33-37: create the base directory when it is missing,
\* then serialize; mkdirOk: fs::create_dir_all succeeds
SaveCall(w, bottles, order, mkdirOk) ==
    /\ UNCHANGED rvars
    /\ writers[w].pc = "idle"
    /\ loaded' = NoResult
    /\ UNCHANGED <<fileExists, fileData, raced>>
    /\ LET content == ToStringPretty(bottles, order)
       IN  IF ~dirExists /\ ~mkdirOk
           THEN /\ last' = Returned(bottles, "ErrIo")
                /\ UNCHANGED <<dirExists, writers>>
           ELSE /\ dirExists' = TRUE
                /\ IF ~content.ok
                   THEN /\ last' = Returned(bottles, "ErrJson")
                        /\ UNCHANGED writers
                   ELSE /\ writers' = [writers EXCEPT ![w] =
                                [pc |-> "create", list |-> bottles,
                                 buf |-> content.doc]]
                        /\ UNCHANGED last

\* save_bottles, line 38, fs::write: File::create; createOk: it succeeds
SaveCreate(w, createOk) ==
    /\ UNCHANGED rvars
    /\ writers[w].pc = "create"
    /\ loaded' = NoResult
    /\ UNCHANGED dirExists
    /\ IF createOk
       THEN /\ fileExists' = TRUE
            /\ fileData' = CreateTruncated(fileData)
            /\ writers' = [writers EXCEPT ![w].pc = "write"]
            /\ raced' = \E v \in Writers \ {w} : writers[v].pc = "write"
            /\ UNCHANGED last
       ELSE /\ writers' = [writers EXCEPT ![w] = IdleWriter]
            /\ last' = Returned(writers[w].list, "ErrIo")
            /\ UNCHANGED <<fileExists, fileData, raced>>

\* save_bottles, line 38, fs::write: write_all, which hands the buffer to one
\* write(2) at the offset of the writer's own descriptor; writeOk: it succeeds
SaveWrite(w, writeOk) ==
    /\ UNCHANGED rvars
    /\ writers[w].pc = "write"
    /\ loaded' = NoResult
    /\ UNCHANGED <<dirExists, fileExists, raced>>
    /\ writers' = [writers EXCEPT ![w] = IdleWriter]
    /\ IF writeOk
       THEN /\ fileData' = WriteAt(fileData, 0, writers[w].buf)
            /\ last' = Returned(writers[w].list, "Ok")
       ELSE /\ fileData' = fileData
            /\ last' = Returned(writers[w].list, "ErrIo")

\* a caller runs load_bottles
Load(readOk) ==
    /\ UNCHANGED rvars
    /\ loaded' = LoadBottles(fileExists, fileData, readOk)
    /\ UNCHANGED <<dirExists, fileExists, fileData, writers, last, raced>>

\* one caller at a time: every save returns before the next call
SoleWriter == "w1"

PersistNext ==
    \/ \E bottles \in BottleLists, order \in KeyOrders,
          mkdirOk \in (IF dirExists THEN {TRUE} ELSE BOOLEAN) :
          SaveCall(SoleWriter, bottles, order, mkdirOk)
    \/ \E createOk \in BOOLEAN : SaveCreate(SoleWriter, createOk)
    \/ \E writeOk \in BOOLEAN : SaveWrite(SoleWriter, writeOk)
    \/ \E readOk \in BOOLEAN : Load(readOk)

\* several callers save at the same time, each lists of its own bottle
WriterBottle(w) == IF w = SoleWriter THEN SteamBottle ELSE OfficeBottle

RaceLists(w) == UNION {[1..n -> {WriterBottle(w)}] : n \in 0..MaxBottles}

RaceNext ==
    \/ \E w \in Writers, order \in KeyOrders,
          mkdirOk \in (IF dirExists THEN {TRUE} ELSE BOOLEAN) :
          \E bottles \in RaceLists(w) : SaveCall(w, bottles, order, mkdirOk)
    \/ \E w \in Writers, createOk \in BOOLEAN : SaveCreate(w, createOk)
    \/ \E w \in Writers, writeOk \in BOOLEAN : SaveWrite(w, writeOk)
    \/ \E readOk \in BOOLEAN : Load(readOk)

-----------------------------------------------------------------------------
(* Strings of the runner part: sequences of chunks.  A chunk is a blank, a  *)
(* byte that is not valid UTF-8, or a run of non-blank characters.          *)

Blank == " "
BadByte == "<FF>"
\* U+FFFD, what from_utf8_lossy puts in place of an invalid byte
Replacement == "<U+FFFD>"

Unknown == <<"unknown">>

\* longest output of a --version probe, in chunks
MaxRaw == 5

OutputChunks == {"umu-launcher", "1.2.3", "stable", Blank, BadByte}

\* what `<exec> --version` may print
RawOutputs == UNION {[1..n -> OutputChunks] : n \in 0..MaxRaw}

\* String::from_utf8_lossy
FromUtf8Lossy(bytes) ==
    [i \in DOMAIN bytes |-> IF bytes[i] = BadByte THEN Replacement ELSE bytes[i]]

\* str::split_whitespace: the maximal runs of non-blank chunks
RECURSIVE SplitWhitespace(_)
SplitWhitespace(str) ==
    IF str = <<>> THEN <<>>
    ELSE IF Head(str) = Blank THEN SplitWhitespace(Tail(str))
    ELSE LET rest == SplitWhitespace(Tail(str))
         IN  IF Len(str) > 1 /\ str[2] # Blank
             THEN <<(<<Head(str)>> \o Head(rest))>> \o Tail(rest)
             ELSE <<(<<Head(str)>>)>> \o rest

-----------------------------------------------------------------------------
(* Paths and the filesystem of the runner part *)

\* The base paths callers construct runners from; all three name the same
\* installation directory: its absolute path, the working directory, and a
\* link to it whose name has blanks.
AbsoluteDir == <<"/", "opt", "runner">>
WorkingDir == <<".">>
LinkDir == <<"/", "opt", "umu 1.0 beta">>
Dirs == {AbsoluteDir, WorkingDir, LinkDir}

\* the text of a path component, in chunks
ComponentText(c) ==
    IF c = "umu 1.0 beta" THEN <<"umu", Blank, "1.0", Blank, "beta">> ELSE <<c>>

\* Path::join
Join(path, rel) == path \o rel

\* Path::file_name: the final component, unless it is the root, "." or ".."
FileName(path) ==
    IF path = <<>> \/ path[Len(path)] \in {"/", ".", ".."}
    THEN None
    ELSE Some(path[Len(path)])

\* the entries of the installation directory, by their path under it
WineExe == <<"bin", "wine">>
ProtonExe == <<"proton">>
FilesDir == <<"files">>
InnerWineExe == <<"files", "bin", "wine">>
UmuExe == <<"umu-run">>
Entries == {WineExe, ProtonExe, FilesDir, InnerWineExe, UmuExe}

RECURSIVE DropCurDir(_)
DropCurDir(rel) ==
    IF rel = <<>> THEN <<>>
    ELSE IF Head(rel) = "." THEN DropCurDir(Tail(rel))
    ELSE <<Head(rel)>> \o DropCurDir(Tail(rel))

\* the path under the installation directory that `path` resolves to
Under(path) ==
    LET d == CHOOSE d \in Dirs : Len(d) <= Len(path) /\ SubSeq(path, 1, Len(d)) = d
    IN  DropCurDir(SubSeq(path, Len(d) + 1, Len(path)))

\* what is at `path`: "absent", "dir" or "file"
KindAt(fsv, path) ==
    LET rel == Under(path)
    IN  IF fsv.base = "absent" THEN "absent"
        ELSE IF rel = <<>> THEN "dir"
        ELSE IF rel \in Entries THEN fsv.entries[rel]
        ELSE "absent"

\* Path::exists and Path::is_file
Exists(fsv, path) == KindAt(fsv, path) # "absent"
IsFile(fsv, path) == KindAt(fsv, path) = "file"

-----------------------------------------------------------------------------
(* runner/mod.rs: RunnerInfo *)

NotFound == "NotFound"
PermissionDenied == "PermissionDenied"

\* how the OS answers an attempt to execute a file
ExecOutcomes == {"Ok", PermissionDenied}

TryOk(v) == [ok |-> TRUE, err |-> "", value |-> <<v>>]
TryErr(e) == [ok |-> FALSE, err |-> e, value |-> <<>>]

\* mutant: a directory at the executable's path passes the test
RunnerInfoTryFromAnyKind(fsv, directory, executable, exec, stdout) ==
    IF ~Exists(fsv, directory) THEN TryErr(NotFound)
    ELSE IF ~Exists(fsv, Join(directory, executable)) THEN TryErr(NotFound)
    ELSE LET name == IF FileName(directory) = None THEN Unknown
                     ELSE ComponentText(FileName(directory)[1])
             ver == FromUtf8Lossy(stdout)
         IN  IF exec # "Ok" THEN TryErr(exec)
             ELSE TryOk([name |-> name,
                         version |-> IF ver = <<>> THEN name ELSE ver,
                         directory |-> directory,
                         executable |-> executable])

\* mutant: an empty output falls back to "unknown", not to the name
RunnerInfoTryFromUnknown(fsv, directory, executable, exec, stdout) ==
    IF ~Exists(fsv, directory) THEN TryErr(NotFound)
    ELSE IF ~IsFile(fsv, Join(directory, executable)) THEN TryErr(NotFound)
    ELSE LET name == IF FileName(directory) = None THEN Unknown
                     ELSE ComponentText(FileName(directory)[1])
             ver == FromUtf8Lossy(stdout)
         IN  IF exec # "Ok" THEN TryErr(exec)
             ELSE TryOk([name |-> name,
                         version |-> IF ver = <<>> THEN Unknown ELSE ver,
                         directory |-> directory,
                         executable |-> executable])

\* RunnerInfo::try_from; exec: how the OS answers the --version probe,
\* stdout: what the probe prints
RunnerInfoTryFrom(fsv, directory, executable, exec, stdout) ==
    IF ~Exists(fsv, directory) THEN TryErr(NotFound)
    ELSE LET full_path == Join(directory, executable)
         IN  IF ~Exists(fsv, full_path) \/ ~IsFile(fsv, full_path)
             THEN TryErr(NotFound)
             ELSE LET name == IF FileName(directory) = None THEN Unknown
                              ELSE ComponentText(FileName(directory)[1])
                      ver == FromUtf8Lossy(stdout)
                  IN  IF exec # "Ok" THEN TryErr(exec)
                      ELSE TryOk([name |-> name,
                                  version |-> IF ver = <<>> THEN name ELSE ver,
                                  directory |-> directory,
                                  executable |-> executable])

\* RunnerInfo::executable_path
ExecutablePath(info) == Join(info.directory, info.executable)

-----------------------------------------------------------------------------
(* runner/wine.rs, proton.rs, umu.rs, gptk.rs: construction *)

\* one --version probe: how the OS answers it and what it prints
Probe(exec, stdout) == [exec |-> exec, stdout |-> stdout]

\* Wine::try_from
WineTryFrom(fsv, path, probe) ==
    LET info == RunnerInfoTryFrom(fsv, path, <<".", "bin", "wine">>,
                                  probe.exec, probe.stdout)
    IN  IF ~info.ok THEN info
        ELSE TryOk([variant |-> "Wine", info |-> info.value[1]])

\* Proton::try_from: the outer probe comes first, then the inner Wine
ProtonTryFrom(fsv, path, probe, wineProbe) ==
    LET info == RunnerInfoTryFrom(fsv, path, <<".", "proton">>,
                                  probe.exec, probe.stdout)
    IN  IF ~info.ok THEN info
        ELSE LET wine == WineTryFrom(fsv, Join(path, <<"files">>), wineProbe)
             IN  IF ~wine.ok THEN wine
                 ELSE TryOk([variant |-> "Proton", info |-> info.value[1],
                             wine |-> [wine.value[1] EXCEPT
                                          !.info.name = info.value[1].name]])

\* mutant: the second token is taken
PrettyVersionSecond(version) ==
    LET tokens == SplitWhitespace(version)
    IN  IF Len(tokens) > 1 THEN tokens[2] ELSE Unknown

\* UMU::try_from, lines 30-35: split_whitespace().nth(2).unwrap_or("unknown")
PrettyVersion(version) ==
    LET tokens == SplitWhitespace(version)
    IN  IF Len(tokens) > 2 THEN tokens[3] ELSE Unknown

\* UMU::try_from; proton: None or Some(a Proton)
UMUTryFrom(fsv, path, proton, probe) ==
    LET info == RunnerInfoTryFrom(fsv, path, <<".", "umu-run">>,
                                  probe.exec, probe.stdout)
    IN  IF ~info.ok THEN info
        ELSE TryOk([variant |-> "UMU",
                    info |-> [info.value[1] EXCEPT
                                 !.version = PrettyVersion(info.value[1].version)],
                    proton |-> proton])

\* GPTK::try_from
GPTKTryFrom(fsv, path, probe, wineProbe) ==
    LET info == RunnerInfoTryFrom(fsv, path, <<".", "proton">>,
                                  probe.exec, probe.stdout)
    IN  IF ~info.ok THEN info
        ELSE LET wine == WineTryFrom(fsv, Join(path, <<"files">>), wineProbe)
             IN  IF ~wine.ok THEN wine
                 ELSE TryOk([variant |-> "GPTK", info |-> info.value[1],
                             wine |-> [wine.value[1] EXCEPT
                                          !.info.name = info.value[1].name]])

-----------------------------------------------------------------------------
(* runner/*.rs: the Runner trait *)

NoRunner == [variant |-> "none"]

\* Runner::is_available, the default of the trait (mod.rs); Wine, Proton and
\* UMU do not override it
IsAvailableDefault(fsv, r) ==
    LET executable_path == ExecutablePath(r.info)
    IN  Exists(fsv, executable_path) /\ IsFile(fsv, executable_path)

\* what the `arch` command may report; "" when it cannot be run
ArchReports == {"arm64", "i386", "x86_64", "ppc", ""}

\* GPTK::is_available
GPTKIsAvailable(fsv, r, arch) ==
    IF ~Exists(fsv, ExecutablePath(r.info)) THEN FALSE
    ELSE arch = "i386" \/ arch = "arm64"

\* Runner::is_available as dispatched on the variant
IsAvailable(fsv, r, arch) ==
    IF r.variant = "GPTK" THEN GPTKIsAvailable(fsv, r, arch)
    ELSE IsAvailableDefault(fsv, r)

\* Command::env, called in order on a Command: a later call replaces an
\* earlier one of the same key
RECURSIVE EnvCalls(_)
EnvCalls(calls) ==
    IF calls = <<>> THEN [k \in {} |-> <<>>]
    ELSE LET before == EnvCalls(SubSeq(calls, 1, Len(calls) - 1))
             c == calls[Len(calls)]
         IN  [k \in DOMAIN before \cup {c[1]} |->
                 IF k = c[1] THEN c[2] ELSE before[k]]

\* a call that unwinds: Option::unwrap on None, todo!()
Panics == [panics |-> TRUE]
Spawns(exe, args, env) ==
    [panics |-> FALSE, exe |-> exe, args |-> args, env |-> env]

\* Wine::initialize
WineInitialize(r, prefix) ==
    Spawns(ExecutablePath(r.info), <<"wineboot", "--init">>,
           EnvCalls(<< <<"WINEPREFIX", prefix>> >>))

\* Proton::initialize
ProtonInitialize(r, prefix) ==
    Spawns(ExecutablePath(r.info), <<"run", "wineboot">>,
           EnvCalls(<< <<"WINEPREFIX", prefix>>,
                       <<"STEAM_COMPAT_DATA_PATH", prefix>>,
                       <<"STEAM_COMPAT_CLIENT_INSTALL_PATH", <<>> >> >>))

\* UMU::initialize: self.proton.as_ref().unwrap() comes first
UMUInitialize(r, prefix) ==
    IF r.proton = None THEN Panics
    ELSE Spawns(ExecutablePath(r.info), <<"wineboot">>,
                EnvCalls(<< <<"WINEPREFIX", prefix>>,
                            <<"PROTONPATH", r.proton[1].info.directory>> >>))

\* GPTK::initialize: todo!()
GPTKInitialize(r, prefix) == Panics

\* Runner::initialize as dispatched on the variant, up to Command::output
Initialize(r, prefix) ==
    CASE r.variant = "Wine" -> WineInitialize(r, prefix)
      [] r.variant = "Proton" -> ProtonInitialize(r, prefix)
      [] r.variant = "UMU" -> UMUInitialize(r, prefix)
      [] r.variant = "GPTK" -> GPTKInitialize(r, prefix)

\* Runner::launch: todo!() in Wine, Proton, UMU and GPTK
Launch(r, executable, args, prefix, env) == Panics

-----------------------------------------------------------------------------
(* The runner part as a state machine: one caller, holding at most one     *)
(* runner, and the installation directory changing under it.               *)

Installed ==
    [base |-> "dir", entries |-> [e \in Entries |->
                                     IF e = FilesDir THEN "dir" ELSE "file"]]

NoOutcome == [op |-> "none"]

IdleCall == [pc |-> "idle"]

RunnerInit ==
    /\ fs = Installed
    /\ runner = NoRunner
    /\ result = NoOutcome
    /\ call = IdleCall
    /\ children = <<>>

\* the installation directory is removed, or created empty
FsSetBase(kind) ==
    /\ UNCHANGED pvars
    /\ kind \in {"absent", "dir"}
    /\ kind # fs.base
    /\ fs' = [base |-> kind, entries |-> [e \in Entries |-> "absent"]]
    /\ result' = NoOutcome
    /\ UNCHANGED <<runner, call, children>>

\* an entry of the installation directory is removed, or put as a file or a
\* directory
FsSetEntry(e, kind) ==
    /\ UNCHANGED pvars
    /\ fs.base = "dir"
    /\ kind # fs.entries[e]
    /\ e = FilesDir => kind # "file"
    /\ (e = InnerWineExe /\ kind # "absent") => fs.entries[FilesDir] = "dir"
    /\ fs' = [fs EXCEPT !.entries =
                 [x \in Entries |->
                     IF x = e THEN kind
                     ELSE IF e = FilesDir /\ kind = "absent" /\ x = InnerWineExe
                     THEN "absent"
                     ELSE fs.entries[x]]]
    /\ result' = NoOutcome
    /\ UNCHANGED <<runner, call, children>>

\* what a constructor returned, with what it was given
Constructed(variant, dir, probe, wineProbe, try) ==
    [op |-> "construct", variant |-> variant, dir |-> dir, probe |-> probe,
     wineProbe |-> wineProbe,
     kind |-> IF try.ok THEN "Ok" ELSE "Err", err |-> try.err]

NoProbe == Probe("Ok", <<>>)

Construct(variant, dir, probe, wineProbe, try) ==
    /\ UNCHANGED pvars
    /\ call.pc = "idle"
    /\ runner' = IF try.ok THEN try.value[1] ELSE NoRunner
    /\ result' = Constructed(variant, dir, probe, wineProbe, try)
    /\ children' = <<>>
    /\ UNCHANGED <<fs, call>>

ConstructWine(dir, probe) ==
    Construct("Wine", dir, probe, NoProbe, WineTryFrom(fs, dir, probe))

ConstructProton(dir, probe, wineProbe) ==
    Construct("Proton", dir, probe, wineProbe,
              ProtonTryFrom(fs, dir, probe, wineProbe))

\* UMU::try_from(path, None)
ConstructUMU(dir, probe) ==
    Construct("UMU", dir, probe, NoProbe, UMUTryFrom(fs, dir, None, probe))

\* UMU::try_from(path, Some(proton)), the Proton the caller holds moving in
ConstructUMUWrapping(dir, probe) ==
    /\ runner.variant = "Proton"
    /\ Construct("UMU", dir, probe, NoProbe,
                 UMUTryFrom(fs, dir, Some(runner), probe))

ConstructGPTK(dir, probe, wineProbe) ==
    Construct("GPTK", dir, probe, wineProbe,
              GPTKTryFrom(fs, dir, probe, wineProbe))

\* the caller asks the runner it holds whether it is available; arch: what
\* the host's `arch` command reports at that time, kept with the answer
CallIsAvailable(arch) ==
    /\ UNCHANGED pvars
    /\ call.pc = "idle"
    /\ runner # NoRunner
    /\ result' = [op |-> "is_available", arch |-> arch,
                  value |-> IsAvailable(fs, runner, arch)]
    /\ children' = <<>>
    /\ UNCHANGED <<fs, runner, call>>

\* initialize(prefix), up to the spawn inside Command::output; exec: how the
\* OS answers the spawn
CallInitialize(prefix, exec) ==
    /\ UNCHANGED pvars
    /\ call.pc = "idle"
    /\ runner # NoRunner
    /\ UNCHANGED <<fs, runner>>
    /\ LET cmd == Initialize(runner, prefix)
       IN  IF cmd.panics
           THEN /\ result' = [op |-> "initialize", kind |-> "panic",
                              prefix |-> prefix]
                /\ children' = <<>>
                /\ call' = IdleCall
           ELSE IF exec # "Ok"
           THEN /\ result' = [op |-> "initialize", kind |-> "Err",
                              prefix |-> prefix]
                /\ children' = <<>>
                /\ call' = IdleCall
           ELSE /\ result' = NoOutcome
                /\ children' = <<[exe |-> cmd.exe, args |-> cmd.args,
                                  env |-> cmd.env, state |-> "running"]>>
                /\ call' = [pc |-> "waiting", prefix |-> prefix]

\* the bootstrap subprocess terminates
ChildExit ==
    /\ UNCHANGED pvars
    /\ \E i \in DOMAIN children :
          /\ children[i].state = "running"
          /\ children' = [children EXCEPT ![i].state = "exited"]
    /\ UNCHANGED <<fs, runner, result, call>>

\* Command::output returns once the child has been waited for, and
\* initialize returns Ok(())
ReturnInitialize ==
    /\ UNCHANGED pvars
    /\ call.pc = "waiting"
    /\ \A i \in DOMAIN children : children[i].state = "exited"
    /\ result' = [op |-> "initialize", kind |-> "Ok", prefix |-> call.prefix]
    /\ call' = IdleCall
    /\ UNCHANGED <<fs, runner, children>>

\* launch(executable, args, prefix, env)
CallLaunch(executable, args, prefix, env) ==
    /\ UNCHANGED pvars
    /\ call.pc = "idle"
    /\ runner # NoRunner
    /\ LET cmd == Launch(runner, executable, args, prefix, env)
       IN  /\ result' = [op |-> "launch",
                         kind |-> IF cmd.panics THEN "panic" ELSE "Ok",
                         prefix |-> prefix, env |-> env]
           /\ children' = IF cmd.panics THEN <<>>
                          ELSE <<[exe |-> cmd.exe, args |-> cmd.args,
                                  env |-> cmd.env, state |-> "running"]>>
    /\ UNCHANGED <<fs, runner, call>>

\* inputs of the runner part
Prefix == <<"/", "tmp", "prefix">>
OtherPrefix == <<"/", "tmp", "other">>
Prefixes == {Prefix, OtherPrefix}
GameExe == <<"C:", "game.exe">>
LaunchEnvs == {EnvCalls(<<>>), EnvCalls(<< <<"WINEPREFIX", OtherPrefix>> >>)}
ProbeOutputs == {<<>>, <<"1.2.3">>}
Probes == {Probe(x, o) : x \in ExecOutcomes, o \in ProbeOutputs}

RunnerNext ==
    \/ \E kind \in {"absent", "dir"} : FsSetBase(kind)
    \/ \E e \in Entries, kind \in {"absent", "dir", "file"} : FsSetEntry(e, kind)
    \/ \E probe \in Probes : ConstructWine(AbsoluteDir, probe)
    \/ \E probe \in Probes, wineProbe \in Probes :
          ConstructProton(AbsoluteDir, probe, wineProbe)
    \/ \E probe \in Probes : ConstructUMU(AbsoluteDir, probe)
    \/ \E probe \in Probes : ConstructUMUWrapping(AbsoluteDir, probe)
    \/ \E probe \in Probes, wineProbe \in Probes :
          ConstructGPTK(AbsoluteDir, probe, wineProbe)
    \/ \E arch \in ArchReports : CallIsAvailable(arch)
    \/ \E prefix \in Prefixes, exec \in ExecOutcomes : CallInitialize(prefix, exec)
    \/ ChildExit
    \/ ReturnInitialize
    \/ \E prefix \in Prefixes, env \in LaunchEnvs :
          CallLaunch(GameExe, <<>>, prefix, env)

\* one construction, over every output of the version probe and every
\* spelling of the base path
InfoNext ==
    /\ result = NoOutcome
    /\ \/ \E dir \in Dirs, exec \in ExecOutcomes, stdout \in RawOutputs :
             ConstructWine(dir, Probe(exec, stdout))
       \/ \E dir \in Dirs, exec \in ExecOutcomes, stdout \in RawOutputs :
             ConstructUMU(dir, Probe(exec, stdout))

-----------------------------------------------------------------------------
(* Specifications *)

\* the catalog under use, no runner constructed
CatalogInit ==
    PersistInit /\ RunnerInit

PersistSpec ==
    CatalogInit /\ [][PersistNext]_vars

RaceSpec ==
    CatalogInit /\ [][RaceNext]_vars

\* the catalog untouched while the runner part runs
CatalogIdle ==
    /\ dirExists = FALSE
    /\ fileExists = FALSE
    /\ fileData = <<>>
    /\ writers = [w \in Writers |-> IdleWriter]
    /\ loaded = NoResult
    /\ last = NoCall
    /\ raced = FALSE

\* a complete installation, no runner constructed, the catalog unused
InstalledInit ==
    CatalogIdle /\ RunnerInit

RunnerSpec ==
    InstalledInit /\ [][RunnerNext]_vars

InfoSpec ==
    InstalledInit /\ [][InfoNext]_vars

-----------------------------------------------------------------------------
(* Claims about the catalog *)

\* what a load is to return for a saved list: the records, inactive
Persisted(list) == [i \in DOMAIN list |-> [list[i] EXCEPT !.active = FALSE]]

UnicodePaths(list) == \A i \in DOMAIN list : list[i].path.utf8

\* a load ran in the current state and the OS let it read the catalog
LoadedNow == loaded.kind \in {"Ok", "ErrJson"}

\* C1 as stated (refuted): for every list L, whatever its paths, a load that
\* follows save_bottles(L) returns the records of L, inactive, unless the OS
\* itself failed the save or the read.
C1_RoundTripAnyPath ==
    (LoadedNow /\ Quiescent /\ last.res \in {"Ok", "ErrJson"})
        => loaded = Ok(Persisted(last.list))

\* C1 amended: save_bottles(L) returns a serialization error exactly when a
\* path of L is not valid Unicode; when it returns Ok, a following load returns
\* a list of the same length and order whose records equal those of L in name,
\* path, kind and config, each with active = FALSE.
C1_RoundTrip ==
    /\ last.res = "ErrJson" => ~UnicodePaths(last.list)
    /\ last.res = "Ok" => UnicodePaths(last.list)
    /\ (LoadedNow /\ Quiescent /\ last.res = "Ok") =>
          /\ loaded.kind = "Ok"
          /\ Len(loaded.list) = Len(last.list)
          /\ \A i \in DOMAIN last.list :
                /\ loaded.list[i].name = last.list[i].name
                /\ loaded.list[i].path = last.list[i].path
                /\ loaded.list[i].kind = last.list[i].kind
                /\ loaded.list[i].config = last.list[i].config
                /\ loaded.list[i].active = FALSE

\* C1 witness: a two-bottle list with an active bottle, set options and a
\* two-entry environment was saved and loaded back.
C1_Witness ==
    /\ loaded.kind = "Ok"
    /\ Quiescent
    /\ last.res = "Ok"
    /\ last.list = <<SteamBottle, OfficeBottle>>

\* C2 as stated (refuted): once every save has returned, a load returns
\* exactly the list of the save that wrote last, also when saves overlapped.
C2_LastWriterWins ==
    (LoadedNow /\ Quiescent /\ last.res = "Ok")
        => loaded = Ok(Persisted(last.list))

\* C2 amended: once every save has returned, if the save that wrote last
\* created (truncated) the catalog while no other save was between its own
\* create and write, the catalog is exactly the document of that save's list
\* and a load returns that list.
C2_LastCleanWriterWins ==
    (Quiescent /\ last.res = "Ok" /\ ~raced) =>
        /\ fileExists
        /\ \E order \in KeyOrders :
              fileData = ToStringPretty(last.list, order).doc
        /\ LoadedNow => loaded = Ok(Persisted(last.list))

\* C2 witness: a load after the save that returned last, one that no other
\* save overlapped, has returned that save's one-record list.
C2_Witness ==
    /\ loaded.kind = "Ok"
    /\ Quiescent
    /\ last.res = "Ok"
    /\ ~raced
    /\ Len(last.list) = 1

\* C3: a load that finds no bottles.json (the base directory missing or not)
\* returns Ok with the empty list; no load creates or changes the directory
\* or the file; and a load of an existing catalog returns Ok only with what the
\* document decodes to, so a read or decode failure is never recovered.
C3_AbsentCatalog ==
    [][loaded' # NoResult =>
          /\ ~fileExists => loaded' = Ok(<<>>)
          /\ dirExists' = dirExists
          /\ fileExists' = fileExists
          /\ fileData' = fileData
          /\ (fileExists /\ loaded'.kind = "Ok") =>
                /\ IsArrayDoc(fileData)
                /\ Len(loaded'.list) = (Len(fileData) - 1) \div 2]_vars

\* C3 witness: a load returned the empty list with no base directory.
C3_Witness ==
    /\ loaded = Ok(<<>>)
    /\ ~dirExists
    /\ ~fileExists

-----------------------------------------------------------------------------
(* Claims about the runners *)

\* the executable a variant expects under its base path
OwnExe(variant) ==
    CASE variant = "Wine" -> WineExe
      [] variant = "UMU" -> UmuExe
      [] OTHER -> ProtonExe

\* the base path does not exist, or the variant's executable is no regular file
LacksOwnExe(variant) ==
    fs.base = "absent" \/ fs.entries[OwnExe(variant)] # "file"

\* Proton and GPTK: files/bin/wine is no regular file
LacksInnerWine(variant) ==
    variant \in {"Proton", "GPTK"} /\ fs.entries[InnerWineExe] # "file"

\* C4 as stated (refuted): construction from a base path that does not exist,
\* or lacks the variant's executable or the inner Wine's, returns NotFound
\* and no runner.
C4_DiscoveryNotFound ==
    (result.op = "construct"
        /\ (LacksOwnExe(result.variant) \/ LacksInnerWine(result.variant)))
    => /\ result.kind = "Err"
       /\ result.err = NotFound
       /\ runner = NoRunner

\* C4 amended: such a construction returns an error and no runner; the error
\* is NotFound when the base path or the variant's own executable is missing,
\* and, when only the inner Wine of Proton/GPTK is missing, NotFound if the
\* outer `proton --version` probe could be executed and otherwise the I/O
\* error of that probe, which runs first.
C4_DiscoveryRejected ==
    (result.op = "construct"
        /\ (LacksOwnExe(result.variant) \/ LacksInnerWine(result.variant)))
    => /\ result.kind = "Err"
       /\ runner = NoRunner
       /\ LacksOwnExe(result.variant) => result.err = NotFound
       /\ ~LacksOwnExe(result.variant) =>
             result.err = (IF result.probe.exec = "Ok" THEN NotFound
                           ELSE result.probe.exec)

\* C4 witness: a Proton whose proton file is there and whose files/bin/wine
\* is not was rejected with NotFound.
C4_Witness ==
    /\ result.op = "construct"
    /\ result.variant = "Proton"
    /\ ~LacksOwnExe("Proton")
    /\ LacksInnerWine("Proton")
    /\ result.err = NotFound
    /\ runner = NoRunner

\* a UMU construction that succeeded
UmuBuilt ==
    result.op = "construct" /\ result.variant = "UMU" /\ result.kind = "Ok"

ExampleOutput == <<"umu-launcher", Blank, "1.2.3", Blank, "stable">>

NoBlank(str) == \A i \in DOMAIN str : str[i] # Blank

\* the positions at which a whitespace-separated token starts
TokenStarts(str) ==
    {i \in DOMAIN str : str[i] # Blank /\ (i = 1 \/ str[i - 1] = Blank)}

\* the third whitespace-separated token of str, or "unknown"
ThirdToken(str) ==
    IF Cardinality(TokenStarts(str)) < 3 THEN Unknown
    ELSE LET b == CHOOSE i \in TokenStarts(str) :
                     Cardinality({j \in TokenStarts(str) : j < i}) = 2
             e == CHOOSE k \in b..Len(str) :
                     /\ \A m \in b..k : str[m] # Blank
                     /\ k = Len(str) \/ str[k + 1] = Blank
         IN  SubSeq(str, b, e)

\* the text of the probe's output: each invalid byte as U+FFFD, the rest as is
Decoded(stdout) ==
    [i \in 1..Len(stdout) |->
        IF stdout[i] = BadByte THEN Replacement ELSE stdout[i]]

\* C5 as stated (refuted): for the raw output "umu-launcher 1.2.3 stable"
\* the stored version is "1.2.3"; for a single-token or empty output it is
\* "unknown".
C5_UmuVersionSecondToken ==
    UmuBuilt =>
        /\ result.probe.stdout = ExampleOutput =>
              runner.info.version = <<"1.2.3">>
        /\ (result.probe.stdout = <<>> \/ NoBlank(result.probe.stdout)) =>
              runner.info.version = Unknown

\* C5 amended: the stored version is the third whitespace-separated token of
\* the RunnerInfo version (the decoded output, or the display name when the
\* output is empty), or "unknown" when there are fewer than three tokens: for
\* "umu-launcher 1.2.3 stable" it is "stable", for a single-token output it is
\* "unknown", and for an empty output it is "unknown" unless the display name
\* itself has three tokens.
C5_UmuVersionThirdToken ==
    UmuBuilt =>
        LET stdout == result.probe.stdout
            name == runner.info.name
        IN  /\ stdout = ExampleOutput => runner.info.version = <<"stable">>
            /\ (stdout # <<>> /\ NoBlank(stdout)) => runner.info.version = Unknown
            /\ (stdout = <<>> /\ NoBlank(name)) => runner.info.version = Unknown
            /\ (stdout = <<>> /\ result.dir = LinkDir) =>
                  runner.info.version = <<"beta">>
            /\ runner.info.version =
                  ThirdToken(IF stdout = <<>> THEN name ELSE Decoded(stdout))

\* C5 witness: umu-run printed "umu-launcher 1.2.3 stable" and the stored
\* version is "stable".
C5_Witness ==
    /\ UmuBuilt
    /\ result.probe.stdout = ExampleOutput
    /\ runner.info.version = <<"stable">>

\* C6 (refuted by the code): initialize on a UMU built without a Proton ends
\* in Ok or in an error value, never in an abort, and its subprocess has
\* WINEPREFIX set and PROTONPATH unset.
C6_UmuBareInitialize ==
    (result.op = "initialize" /\ runner.variant = "UMU" /\ runner.proton = None)
    => /\ result.kind \in {"Ok", "Err"}
       /\ result.kind = "Ok" =>
             /\ Len(children) = 1
             /\ "WINEPREFIX" \in DOMAIN children[1].env
             /\ children[1].env["WINEPREFIX"] = result.prefix
             /\ "PROTONPATH" \notin DOMAIN children[1].env

\* C7 (refuted by the code): is_available of a UMU that wraps a Proton is
\* true only if umu-run is a regular file and the wrapped Proton's executable
\* is one too.
C7_UmuAvailability ==
    (result.op = "is_available" /\ runner.variant = "UMU"
        /\ runner.proton # None /\ result.value)
    => /\ fs.base = "dir"
       /\ fs.entries[UmuExe] = "file"
       /\ fs.entries[ProtonExe] = "file"

\* C8 (refuted by the code): launch returns a handle to a running child whose
\* environment holds every caller entry, and WINEPREFIX = prefix unless the
\* caller's env overrides it.
C8_LaunchEnv ==
    result.op = "launch" =>
        /\ result.kind = "Ok"
        /\ Len(children) = 1
        /\ children[1].state = "running"
        /\ \A k \in DOMAIN result.env : children[1].env[k] = result.env[k]
        /\ "WINEPREFIX" \notin DOMAIN result.env =>
              children[1].env["WINEPREFIX"] = result.prefix

\* a Wine construction
WineTried == result.op = "construct" /\ result.variant = "Wine"

\* the display name of a base path: its final component, or "unknown" when
\* the path ends in none
DisplayName(dir) ==
    CASE dir = AbsoluteDir -> <<"runner">>
      [] dir = LinkDir -> <<"umu", Blank, "1.0", Blank, "beta">>
      [] dir = WorkingDir -> <<"unknown">>

\* C9 as stated (refuted): an empty output gives the display name as the
\* version, a probe the OS cannot execute fails construction with its I/O
\* error, and any other output is stored raw.
C9_VersionRaw ==
    WineTried =>
        IF result.probe.exec # "Ok"
        THEN result.kind = "Err" /\ result.err = result.probe.exec
                /\ runner = NoRunner
        ELSE /\ result.kind = "Ok"
             /\ runner.info.name = DisplayName(result.dir)
             /\ result.probe.stdout = <<>> =>
                   runner.info.version = runner.info.name
             /\ result.probe.stdout # <<>> =>
                   runner.info.version = result.probe.stdout

\* C9 amended: an empty output gives the display name (the final component of
\* the base path, or "unknown" when the path ends in none) as the version; a
\* probe the OS cannot execute fails construction with its I/O error and no
\* RunnerInfo; any other output is stored untrimmed after lossy UTF-8
\* decoding, so it is the raw output whenever that is valid UTF-8 and has
\* U+FFFD in place of each invalid byte otherwise.
C9_VersionLossy ==
    WineTried =>
        IF result.probe.exec # "Ok"
        THEN result.kind = "Err" /\ result.err = result.probe.exec
                /\ runner = NoRunner
        ELSE /\ result.kind = "Ok"
             /\ runner.info.name = DisplayName(result.dir)
             /\ result.probe.stdout = <<>> =>
                   runner.info.version = runner.info.name
             /\ result.probe.stdout # <<>> =>
                   /\ Len(runner.info.version) = Len(result.probe.stdout)
                   /\ \A i \in DOMAIN result.probe.stdout :
                         runner.info.version[i] =
                            (IF result.probe.stdout[i] = BadByte
                             THEN Replacement ELSE result.probe.stdout[i])

\* C9 witness: an output with an invalid byte and a trailing blank was stored
\* with U+FFFD and the blank.
C9_Witness ==
    /\ WineTried
    /\ result.probe.stdout = <<"1.2.3", BadByte, Blank>>
    /\ runner.info.version = <<"1.2.3", Replacement, Blank>>

\* C10 (refuted by the code): every initialize call that the OS does not
\* refuse to spawn ends with exactly one bootstrap subprocess started, and
\* that one terminated; for Wine it ran `wineboot --init` with
\* WINEPREFIX = prefix.
C10_InitializeOnce ==
    (result.op = "initialize" /\ result.kind # "Err") =>
        /\ result.kind = "Ok"
        /\ Len(children) = 1
        /\ children[1].state = "exited"
        /\ runner.variant = "Wine" =>
              /\ children[1].exe = <<"/", "opt", "runner", ".", "bin", "wine">>
              /\ children[1].args = <<"wineboot", "--init">>
              /\ children[1].env = [k \in {"WINEPREFIX"} |-> result.prefix]

\* the architectures the specification accepts for GPTK
AcceptedArchs == {"arm64", "i386", "x86_64"}

\* C11 (refuted by the code): is_available of a GPTK is true exactly when the
\* runner's executable is a regular file and the architecture the host
\* reports is arm64, i386 or x86_64; with any other report, or none, it is
\* false.
C11_GptkAvailability ==
    (result.op = "is_available" /\ runner.variant = "GPTK")
    => result.value = (/\ IsFile(fs, ExecutablePath(runner.info))
                       /\ result.arch \in AcceptedArchs)

====
